---------------------------- MODULE Spec2Model ----------------------------
(***************************************************************************)
(* The write-ahead log of yaraft-wal: LogManager (src/wal/log_manager.cc)  *)
(* over a log directory of segment files, and the merge of decoded entries *)
(* into the in-memory log cache (AppendToMemStore).                        *)
(*                                                                         *)
(* LogWriter and ReadSegmentIntoMemoryStorage are declared in headers that *)
(* log_manager.cc includes; their bodies are modelled from the design      *)
(* document (sections 4.2, 4.3 and 6).                                     *)
(***************************************************************************)
EXTENDS Integers, Sequences, FiniteSets, TLC

\* ------------------------------------------------------------------ bounds
\* Highest entry index the caller ever writes.
MaxIndex == 3
\* Highest index the caller may give the very first entry of a fresh log.
MaxFirstIndex == 2
\* Longest batch handed to one Write call.
MaxBatch == 3
\* The configured segment capacity threshold, in bytes of entry payload.
SegmentSize == 2
\* Indices offered to AppendToMemStore in the merge-only specification.
MaxMemIndex == 3
\* Segment files without any entry (left by an Append that failed or accepted
\* nothing right after the file was created) the directory may come to hold.
MaxEmptySegments == 1
\* Crashes in the middle of a record the directory may come to show.
MaxCrashes == 1
\* Step calls made on the RPC clients.
MaxRpcCalls == 3

\* ------------------------------------------------------------ basic values
\* The terms entries carry: two, so that a term can regress, repeat or grow.
Terms == {1, 2}
\* A payload is abstracted to its encoded length in bytes: below and at the
\* smallest segment capacity.
Payloads == {1, 2}

\* A nullable pointer is a sequence of length at most one.
None == <<>>
Some(x) == <<x>>

Last(s) == s[Len(s)]

SetMax(S) == CHOOSE x \in S : \A y \in S : y <= x
SetMin(S) == CHOOSE x \in S : \A y \in S : x <= y

\* yaraft::pb::Entry
Entry(i, t, d) == [index |-> i, term |-> t, data |-> d]

\* The one yaraft::pb::HardState value the caller passes.
HardState == [term |-> 1, vote |-> 1, commit |-> 0]

EntryRec(e) == [type |-> "entry", entry |-> e]

\* The bytes a crash in the middle of a record leaves at the end of a file.
PartialRec == [type |-> "partial", entry |-> Entry(0, 0, 0)]

\* ------------------------------------------------------------- file names
DigitChars == <<"0", "1", "2", "3", "4", "5", "6", "7", "8", "9">>

RECURSIVE FormatUInt(_)
FormatUInt(n) ==
  IF n < 10 THEN <<DigitChars[n + 1]>>
  ELSE FormatUInt(n \div 10) \o <<DigitChars[(n % 10) + 1]>>

WalSuffix == <<".", "w", "a", "l">>

\* "{segmentId}-{startIndex}.wal"
SegmentFileName(segId, segStart) ==
  FormatUInt(segId) \o <<"-">> \o FormatUInt(segStart) \o WalSuffix

isWal(fname) ==
  LET len == Len(fname)
  IN  len > 4 /\ SubSeq(fname, len - 3, len) = WalSuffix

IsDigit(c) == \E d \in 1..10 : DigitChars[d] = c
DigitValue(c) == (CHOOSE d \in 1..10 : DigitChars[d] = c) - 1

\* sscanf's %zu from position pos: the value of the longest run of digits
\* and the position after it (ok is FALSE when there is no digit).
RECURSIVE ScanUInt(_, _, _, _)
ScanUInt(s, pos, acc, any) ==
  IF pos <= Len(s) /\ IsDigit(s[pos])
  THEN ScanUInt(s, pos + 1, acc * 10 + DigitValue(s[pos]), TRUE)
  ELSE [ok |-> any, value |-> acc, pos |-> pos]

\* sscanf(fname, "%zu-%zu.wal", segId, segStart)
parseWalName(fname) ==
  LET a == ScanUInt(fname, 1, 0, FALSE)
      dash == a.ok /\ a.pos <= Len(fname) /\ fname[a.pos] = "-"
      b == IF dash THEN ScanUInt(fname, a.pos + 1, 0, FALSE)
           ELSE [ok |-> FALSE, value |-> 0, pos |-> a.pos]
  IN  [ok |-> a.ok /\ b.ok, segId |-> a.value, segStart |-> b.value]


\* ------------------------------------------------- the in-memory log cache
\* ScanDel stopping at an entry of the same index as e (<= for <).
RECURSIVE ScanDelKeepsEqual(_, _, _)
ScanDelKeepsEqual(vec, e, del) ==
  IF del >= 1 /\ ~(vec[del].index <= e.index)
  THEN ScanDelKeepsEqual(vec, e, del - 1)
  ELSE del

\* The backward scan of AppendToMemStore: from position del (1-based) down,
\* the position of the last entry whose index is below e's; 0 when none is.
RECURSIVE ScanDel(_, _, _)
ScanDel(vec, e, del) ==
  IF del >= 1 /\ ~(vec[del].index < e.index)
  THEN ScanDel(vec, e, del - 1)
  ELSE del

\* AppendToMemStore comparing e's term with the first cached entry's term
\* (begin() for rbegin()).
AppendToMemStoreFirstTerm(e, vec) ==
  IF vec # <<>> /\ e.term < vec[1].term
  THEN [status |-> "YARaftError", vec |-> vec]
  ELSE LET del == ScanDel(vec, e, Len(vec))
       IN  [status |-> "OK", vec |-> Append(SubSeq(vec, 1, del), e)]

\* AppendToMemStore appending e without popping the entries it replaces.
AppendToMemStoreNoPop(e, vec) ==
  IF vec # <<>> /\ e.term < Last(vec).term
  THEN [status |-> "YARaftError", vec |-> vec]
  ELSE [status |-> "OK", vec |-> Append(vec, e)]

\* AppendToMemStore(e, memstore) on the cache's entry vector vec: the status
\* returned and the vector afterwards.
AppendToMemStore(e, vec) ==
  IF vec # <<>> /\ e.term < Last(vec).term
  THEN [status |-> "YARaftError", vec |-> vec]
  ELSE LET del == ScanDel(vec, e, Len(vec))
       IN  [status |-> "OK", vec |-> Append(SubSeq(vec, 1, del), e)]

\* ------------------------------------------------------------ LogWriter
\* The state the segment-write loop works on: the manager's fields, the log
\* directory, and the record of the Append calls made by the running Write.
\*   files, current, lastIndex, empty : LogManager's members
\*   dir                              : file name -> sequence of records
\*   appends                          : the LogWriter::Append calls so far
\*   fault                            : the failure injected into this call
\*   status, failed                   : the status so far, and what failed
\*
\* A fault names the collaborator call that fails: kind "New", "Append" or
\* "Finish" in loop iteration n (IOError from the file system), kind "Zero"
\* for an Append that returns without having accepted an entry; ub is the
\* value an out-of-bounds read yields.
NoFault == [kind |-> "none", n |-> 0, ub |-> 0]

\* The loop iteration doWrite is in: one more than the Append calls returned.
Iteration(m) == Len(m.appends) + 1

FaultNow(m, kind) == m.fault.kind = kind /\ m.fault.n = Iteration(m)

Fail(m, status, what) == [m EXCEPT !.status = status, !.failed = what]

RECURSIVE FlattenAppends(_)
FlattenAppends(a) ==
  IF a = <<>> THEN <<>> ELSE a[1].entries \o FlattenAppends(Tail(a))

HighestSegId(files) ==
  IF files = <<>> THEN 0 ELSE SetMax({files[i].segId : i \in 1..Len(files)})

\* New naming the file from the highest segmentId seen, not one above it.
LogWriterNewReusesSegId(m) ==
  IF FaultNow(m, "New") THEN Fail(m, "IOError", "New") ELSE
  LET segId == HighestSegId(m.files)
      segStart == m.lastIndex + 1
      fname == SegmentFileName(segId, segStart)
      w == [fileName |-> fname, segId |-> segId, startIndex |-> segStart,
            size |-> 0]
  IN  [m EXCEPT !.current = Some(w), !.dir = (fname :> <<>>) @@ m.dir]

\* LogWriter::New(manager): a fresh segment file named from a new segmentId
\* and startIndex = lastIndex + 1; the writer becomes current.
LogWriterNew(m) ==
  IF FaultNow(m, "New") THEN Fail(m, "IOError", "New") ELSE
  LET segId == HighestSegId(m.files) + 1
      segStart == m.lastIndex + 1
      fname == SegmentFileName(segId, segStart)
      w == [fileName |-> fname, segId |-> segId, startIndex |-> segStart,
            size |-> 0]
  IN  [m EXCEPT !.current = Some(w), !.dir = (fname :> <<>>) @@ m.dir]

\* How many of es a writer holding size bytes accepts: the first always,
\* then more until the segment has reached SegmentSize or es is used up.
RECURSIVE AppendCount(_, _, _)
AppendCount(es, size, k) ==
  IF k = Len(es) \/ size + es[k].data >= SegmentSize
  THEN k
  ELSE AppendCount(es, size + es[k].data, k + 1)

RECURSIVE SumData(_)
SumData(es) == IF es = <<>> THEN 0 ELSE es[1].data + SumData(Tail(es))

\* LogWriter::Append(begin, end, hs) on the current writer: the accepted
\* entries go to the file as entry records. The hard state record, which no
\* reader of this module decodes, is kept in the record of the call
\* (m.appends) and not in the file. The number of entries accepted is the
\* length of the last element of m.appends.
LogWriterAppend(m, es, hs) ==
  IF FaultNow(m, "Append") THEN Fail(m, "IOError", "Append") ELSE
  LET w == m.current[1]
      n == IF FaultNow(m, "Zero") THEN 0 ELSE AppendCount(es, w.size, 1)
      taken == SubSeq(es, 1, n)
      recs == [i \in 1..n |-> EntryRec(taken[i])]
  IN  [m EXCEPT !.current = Some([w EXCEPT !.size = @ + SumData(taken)]),
                !.dir = [@ EXCEPT ![w.fileName] = @ \o recs],
                !.appends = Append(@, [segId |-> w.segId, entries |-> taken,
                                       hs |-> hs]),
                !.failed = IF n = 0 THEN "Zero" ELSE @]

\* LogWriter::Finish(&meta)
LogWriterFinish(w) ==
  [fileName |-> w.fileName, segId |-> w.segId, startIndex |-> w.startIndex]

\* ------------------------------------------------- ReadableLogSegment
\* Merge the entry records recs[k..] into vec, stopping at the first error.
\* A record cut short is the end-of-file truncation case when it is the last
\* of the file, and a corrupt segment anywhere else.
RECURSIVE ReadEntries(_, _, _)
ReadEntries(recs, k, vec) ==
  IF k > Len(recs) THEN [status |-> "OK", vec |-> vec]
  ELSE IF recs[k].type = "partial"
  THEN [status |-> IF k = Len(recs) THEN "OK" ELSE "CorruptSegment",
        vec |-> vec]
  ELSE LET r == AppendToMemStore(recs[k].entry, vec)
       IN  IF r.status # "OK" THEN r ELSE ReadEntries(recs, k + 1, r.vec)

\* ReadSegmentIntoMemoryStorage(fname, memstore, &meta, verifyChecksum)
ReadSegmentIntoMemoryStorage(d, fname, vec) ==
  IF fname \notin DOMAIN d
  THEN [status |-> "IOError", vec |-> vec, meta |-> None]
  ELSE LET r == ReadEntries(d[fname], 1, vec)
           p == parseWalName(fname)
       IN  [status |-> r.status, vec |-> r.vec,
            meta |-> Some([fileName |-> fname, segId |-> p.segId,
                           startIndex |-> p.segStart])]

\* ------------------------------------------------------------ LogManager
\* LogManager::LogManager(options)
LogManager ==
  [files |-> <<>>, current |-> None, lastIndex |-> 0, empty |-> FALSE]

\* The std::map<segId, segStart> Recover builds from the directory listing:
\* wals[segId] = segStart for every *.wal name. When two names carry the
\* same segId the one listed last wins, and the listing order is the file
\* system's, so every choice is possible.
ListWals(d) ==
  LET parsed == {parseWalName(f) : f \in {g \in DOMAIN d : isWal(g)}}
      ids == {p.segId : p \in parsed}
      starts == {p.segStart : p \in parsed}
  IN  {wals \in [ids -> starts] :
         \A id \in ids : \E p \in parsed :
            p.segId = id /\ p.segStart = wals[id]}

\* Replay reading the newest segment first (descending segId order).
RECURSIVE ReplayNewestFirst(_, _, _, _)
ReplayNewestFirst(d, wals, ids, st) ==
  IF ids = {} THEN st
  ELSE LET id == SetMax(ids)
           fname == SegmentFileName(id, wals[id])
           r == ReadSegmentIntoMemoryStorage(d, fname, st.vec)
       IN  IF r.status # "OK"
           THEN [status |-> r.status, files |-> st.files, vec |-> r.vec]
           ELSE ReplayNewestFirst(d, wals, ids \ {id},
                                  [status |-> "OK",
                                   files |-> Append(st.files, r.meta[1]),
                                   vec |-> r.vec])

\* The loop of Recover over wals in ascending segId order, from the ids still
\* to read: st holds the status, the files_ list and the cache so far.
RECURSIVE Replay(_, _, _, _)
Replay(d, wals, ids, st) ==
  IF ids = {} THEN st
  ELSE LET id == SetMin(ids)
           fname == SegmentFileName(id, wals[id])
           r == ReadSegmentIntoMemoryStorage(d, fname, st.vec)
       IN  IF r.status # "OK"
           THEN [status |-> r.status, files |-> st.files, vec |-> r.vec]
           ELSE Replay(d, wals, ids \ {id},
                       [status |-> "OK",
                        files |-> Append(st.files, r.meta[1]),
                        vec |-> r.vec])

\* LogManager::Recover, given the map wals: the status, the manager handed
\* back in *pLogManager and the cache handed back in *memstore.
Recover(d, wals, ms) ==
  IF DOMAIN wals = {}
  THEN [status |-> "OK", mgr |-> LogManager, memstore |-> ms]
  ELSE LET st == Replay(d, wals, DOMAIN wals,
                        [status |-> "OK", files |-> <<>>, vec |-> <<>>])
       IN  [status |-> st.status,
            mgr |-> [LogManager EXCEPT !.empty = FALSE, !.files = st.files],
            memstore |-> Some(st.vec)]

\* finishCurrentWriter dropping the writer without listing its segment.
finishCurrentWriterNoPush(m) == [m EXCEPT !.current = None]

\* LogManager::finishCurrentWriter: FATAL_NOT_OK ends the process when
\* Finish fails.
finishCurrentWriter(m) ==
  IF m.fault.kind = "Finish" /\ m.fault.n = Len(m.appends)
  THEN Fail(m, "FATAL", "Finish")
  ELSE [m EXCEPT !.files = Append(@, LogWriterFinish(m.current[1])),
                 !.current = None]

\* std::prev(it)->index() at line 152, it being n entries into es: the index
\* of the entry before it, which is the last entry an earlier Append of this
\* call accepted when n = 0, and a read before the start of the caller's
\* vector (any value) when there is none.
PrevIndex(m, es, n) ==
  IF n > 0 THEN es[n].index
  ELSE LET done == FlattenAppends(m.appends)
       IN  IF done # <<>> THEN Last(done).index ELSE m.fault.ub

\* doWrite handing the hard state to every Append (hs never cleared).
RECURSIVE doWriteKeepsHs(_, _, _)
doWriteKeepsHs(m, es, hs) ==
  LET m1 == IF m.current = None THEN LogWriterNew(m) ELSE m
      m2 == LogWriterAppend(m1, es, hs)
      n == Len(Last(m2.appends).entries)
      m3 == finishCurrentWriter([m2 EXCEPT !.lastIndex = PrevIndex(m2, es, n)])
  IN  IF m1.status # "OK" THEN m1
      ELSE IF m2.status # "OK" THEN m2
      ELSE IF n = Len(es) THEN m2
      ELSE IF m3.status # "OK" THEN m3
      ELSE doWriteKeepsHs(m3, SubSeq(es, n + 1, Len(es)), hs)

\* doWrite leaving lastIndex_ alone at a rollover.
RECURSIVE doWriteNoLastIndex(_, _, _)
doWriteNoLastIndex(m, es, hs) ==
  LET m1 == IF m.current = None THEN LogWriterNew(m) ELSE m
      m2 == LogWriterAppend(m1, es, hs)
      n == Len(Last(m2.appends).entries)
      m3 == finishCurrentWriter(m2)
  IN  IF m1.status # "OK" THEN m1
      ELSE IF m2.status # "OK" THEN m2
      ELSE IF n = Len(es) THEN m2
      ELSE IF m3.status # "OK" THEN m3
      ELSE doWriteNoLastIndex(m3, SubSeq(es, n + 1, Len(es)), None)

\* LogManager::doWrite(begin, end, hs) on the entries es still to write
RECURSIVE doWrite(_, _, _)
doWrite(m, es, hs) ==
  LET m1 == IF m.current = None THEN LogWriterNew(m) ELSE m
      m2 == LogWriterAppend(m1, es, hs)
      n == Len(Last(m2.appends).entries)
      m3 == finishCurrentWriter([m2 EXCEPT !.lastIndex = PrevIndex(m2, es, n)])
  IN  IF m1.status # "OK" THEN m1
      ELSE IF m2.status # "OK" THEN m2
      ELSE IF n = Len(es) THEN m2
      ELSE IF m3.status # "OK" THEN m3
      ELSE doWrite(m3, SubSeq(es, n + 1, Len(es)), None)

\* LogManager::Write(entries, hs)
Write(m, entries, hs) ==
  IF entries = <<>> THEN m
  ELSE LET beginIdx == entries[1].index
           m1 == IF m.empty
                 THEN [m EXCEPT !.lastIndex = beginIdx - 1, !.empty = FALSE]
                 ELSE m
       IN  doWrite(m1, entries, hs)

\* LogManager::Sync: the writer's Sync moves no entry and no member, and
\* may fail.
Sync(m) ==
  IF m.current # None /\ m.fault.kind = "Sync"
  THEN Fail(m, "IOError", "Sync")
  ELSE m

\* Close finalizing the writer without letting go of it.
CloseKeepsWriter(m) ==
  IF m.current # None
  THEN [finishCurrentWriter(m) EXCEPT !.current = m.current]
  ELSE m

\* LogManager::Close
Close(m) == IF m.current # None THEN finishCurrentWriter(m) ELSE m

\* GC deleting the oldest listed segment.
GCDropsOldest(m, hint) ==
  [m EXCEPT !.files = IF @ = <<>> THEN @ ELSE Tail(@)]

\* LogManager::GC(hint)
GC(m, hint) == m

\* ------------------------------------------------------------------ state
VARIABLES
  alive,       \* a LogManager object exists (Recover has handed one back)
  files_,      \* LogManager::files_
  current_,    \* LogManager::current_ : None or Some(writer)
  lastIndex_,  \* LogManager::lastIndex_
  empty_,      \* LogManager::empty_
  dir,         \* the log directory: file name -> the file's records
  memstore,    \* the caller's MemStoreUptr: None or Some(entry vector)
  ret,         \* the last call and the status it returned
  call,        \* the arguments of the last call and what it did
  written,     \* every entry handed to a Write so far, in order
  rpc          \* the RPC clients: callbacks registered, and the Step calls

vars == <<alive, files_, current_, lastIndex_, empty_, dir, memstore, ret,
          call, written, rpc>>

walVars == <<alive, files_, current_, lastIndex_, empty_, dir, memstore, ret,
             call, written>>

mgrVars == <<files_, current_, lastIndex_, empty_>>

\* call: entries and hs are the arguments, before is the sequence the call
\* works on as it was when the call began (files_ for Write and Close, the
\* cache for AppendToMemStore), appends the LogWriter::Append calls it made,
\* failed is the collaborator call that failed or misbehaved, if any.
NoCall ==
  [entries |-> <<>>, hs |-> None, before |-> <<>>, appends |-> <<>>,
   failed |-> "none"]

\* rpc: whether AsyncRaftClient's onSuccess_ and onFail_ hold a function, and
\* one record per Step call made.
NoRpc == [onSuccess |-> FALSE, onFail |-> FALSE, calls |-> <<>>]

\* The manager's members and the directory as one value, and back.
Mgr ==
  [files |-> files_, current |-> current_, lastIndex |-> lastIndex_,
   empty |-> empty_, dir |-> dir, appends |-> <<>>, fault |-> NoFault,
   status |-> "OK", failed |-> "none"]

MgrWith(fault) == [Mgr EXCEPT !.fault = fault]

SetMgr(m) ==
  /\ files_' = m.files
  /\ current_' = m.current
  /\ lastIndex_' = m.lastIndex
  /\ empty_' = m.empty

\* What a call leaves behind: the manager's members as m has them, or, when
\* the call ended the process (FATAL), no manager and no cache.
Return(m) ==
  IF m.status = "FATAL"
  THEN /\ alive' = FALSE
       /\ SetMgr(LogManager)
       /\ memstore' = None
  ELSE /\ SetMgr(m)
       /\ UNCHANGED <<alive, memstore>>

\* The process before Recover: no manager, no cache, an empty directory.
Init ==
  /\ alive = FALSE
  /\ files_ = <<>>
  /\ current_ = None
  /\ lastIndex_ = 0
  /\ empty_ = FALSE
  /\ dir = <<>>
  /\ memstore = None
  /\ ret = [op |-> "none", status |-> "OK"]
  /\ call = NoCall
  /\ written = <<>>
  /\ rpc = NoRpc

\* A manager that has returned an error is only destroyed.
Usable == alive /\ ret.status = "OK"

\* ---------------------------------------------------------------- actions
CallRecover ==
  /\ ~alive
  /\ memstore = None
  /\ \E wals \in ListWals(dir) :
       LET r == Recover(dir, wals, memstore)
       IN  /\ alive' = TRUE
           /\ SetMgr(r.mgr)
           /\ memstore' = r.memstore
           /\ ret' = [op |-> "Recover", status |-> r.status]
  /\ call' = NoCall
  /\ UNCHANGED <<dir, written, rpc>>

\* The batches a caller may hand to Write: contiguous indices that continue
\* the entries written so far (a fresh log starts at 1..MaxFirstIndex), with
\* any terms and payloads.
BatchesOver(terms, payloads) ==
  LET firsts == IF written = <<>> THEN 1..MaxFirstIndex
                ELSE {Last(written).index + 1}
  IN  {<<>>} \cup
      UNION {UNION {
        {[i \in 1..len |-> Entry(b + i - 1, ts[i], ds[i])] :
            ts \in [1..len -> terms], ds \in [1..len -> payloads]}
        : len \in {l \in 1..MaxBatch : b + l - 1 <= MaxIndex}}
        : b \in firsts}

Batches == BatchesOver(Terms, Payloads)

EmptySegments(d) == {f \in DOMAIN d : d[f] = <<>>}

\* One call of LogManager::Write, with the failure injected into it.
WriteCall(entries, hs, fault) ==
  /\ Usable
  /\ UNCHANGED rpc
  /\ LET m == Write(MgrWith(fault), entries, hs)
     IN  /\ Cardinality(EmptySegments(m.dir)) <= MaxEmptySegments
         /\ Return(m)
         /\ dir' = m.dir
         /\ call' = [entries |-> entries, hs |-> hs, before |-> files_,
                     appends |-> m.appends, failed |-> m.failed]
         /\ written' = written \o FlattenAppends(m.appends)
         /\ ret' = [op |-> "Write", status |-> m.status]

SyncCall(fault) ==
  /\ Usable
  /\ LET m == Sync(MgrWith(fault))
     IN  /\ SetMgr(m)
         /\ ret' = [op |-> "Sync", status |-> m.status]
         /\ call' = [NoCall EXCEPT !.failed = m.failed]
  /\ UNCHANGED <<alive, dir, memstore, written, rpc>>

CloseCall(fault) ==
  /\ Usable
  /\ LET m == Close(MgrWith(fault))
     IN  /\ Return(m)
         /\ ret' = [op |-> "Close", status |-> m.status]
         /\ call' = [NoCall EXCEPT !.before = files_, !.failed = m.failed]
  /\ UNCHANGED <<dir, written, rpc>>

\* LogManager::~LogManager, and the end of the process that held the cache.
\* call.before is files_ as the destructor's Close left it.
DestroyCall(fault) ==
  /\ alive
  /\ LET m == Close(MgrWith(fault))
     IN  /\ ret' = [op |-> "~LogManager", status |-> m.status]
         /\ call' = [NoCall EXCEPT !.before = m.files, !.failed = m.failed]
  /\ alive' = FALSE
  /\ SetMgr(LogManager)
  /\ memstore' = None
  /\ UNCHANGED <<dir, written, rpc>>

\* The calls over a file system and a writer that do not fail.
CallWrite ==
  \E entries \in Batches, hs \in {None, Some(HardState)} :
    WriteCall(entries, hs, NoFault)

CallSync == SyncCall(NoFault)

CallClose == CloseCall(NoFault)

CallGC ==
  /\ Usable
  /\ \E hint \in {0, MaxIndex} : SetMgr(GC(Mgr, hint))
  /\ ret' = [op |-> "GC", status |-> "OK"]
  /\ call' = NoCall
  /\ UNCHANGED <<alive, dir, memstore, written, rpc>>

Destroy == DestroyCall(NoFault)

Next ==
  \/ CallRecover
  \/ CallWrite
  \/ CallSync
  \/ CallClose
  \/ CallGC
  \/ Destroy

Spec == Init /\ [][Next]_vars

\* ------------------------------------- a file system that fails, and crashes
\* The failures the file system may inject into a Write of len entries.
IOFaults(len) ==
  {NoFault} \cup
  {[kind |-> k, n |-> n, ub |-> 0] : k \in {"New", "Append"}, n \in 1..len}
  \cup {[kind |-> "Finish", n |-> n, ub |-> 0] : n \in 1..(len - 1)}

\* The positions <<file, k>> of the records cut short in d.
PartialAt(d) ==
  {p \in UNION {{<<f, k>> : k \in 1..Len(d[f])} : f \in DOMAIN d} :
     d[p[1]][p[2]].type = "partial"}

\* The entries of this specification all carry one term and one payload: what
\* it adds to Spec depends on neither.
FaultyWrite ==
  \E entries \in BatchesOver({1}, {1}) :
    \E fault \in IOFaults(Len(entries)) : WriteCall(entries, None, fault)

FaultySync == \E fault \in {NoFault, [NoFault EXCEPT !.kind = "Sync"]} : SyncCall(fault)

FaultyClose ==
  \E fault \in {NoFault, [NoFault EXCEPT !.kind = "Finish"]} : CloseCall(fault)

FaultyDestroy ==
  \E fault \in {NoFault, [NoFault EXCEPT !.kind = "Finish"]} : DestroyCall(fault)

\* The process is killed while the open writer is in the middle of a record:
\* the file ends with a record cut short, and the manager and the cache are
\* gone without Close.
Crash ==
  /\ alive
  /\ current_ # None
  /\ Cardinality(PartialAt(dir)) < MaxCrashes
  /\ dir' = [dir EXCEPT ![current_[1].fileName] = Append(@, PartialRec)]
  /\ alive' = FALSE
  /\ SetMgr(LogManager)
  /\ memstore' = None
  /\ ret' = [op |-> "crash", status |-> "OK"]
  /\ call' = NoCall
  /\ UNCHANGED <<written, rpc>>

NextFault ==
  \/ CallRecover
  \/ FaultyWrite
  \/ FaultySync
  \/ FaultyClose
  \/ CallGC
  \/ FaultyDestroy
  \/ Crash

SpecFault == Init /\ [][NextFault]_vars

\* ------------------------------------------- the merge logic on its own
\* A fresh yaraft::MemoryStorage and no log manager: the consensus engine
\* merges entries of any index and term into the cache.
InitMem ==
  /\ alive = FALSE
  /\ files_ = <<>>
  /\ current_ = None
  /\ lastIndex_ = 0
  /\ empty_ = FALSE
  /\ dir = <<>>
  /\ memstore = Some(<<>>)
  /\ ret = [op |-> "none", status |-> "OK"]
  /\ call = NoCall
  /\ written = <<>>
  /\ rpc = NoRpc

CallAppendToMemStore ==
  /\ memstore # None
  /\ \E i \in 1..MaxMemIndex, t \in Terms, d \in Payloads :
       LET e == Entry(i, t, d)
           r == AppendToMemStore(e, memstore[1])
       IN  /\ memstore' = Some(r.vec)
           /\ ret' = [op |-> "AppendToMemStore", status |-> r.status]
           /\ call' = [NoCall EXCEPT !.entries = <<e>>, !.before = memstore[1]]
  /\ UNCHANGED <<alive, mgrVars, dir, written, rpc>>

NextMem == CallAppendToMemStore

SpecMem == InitMem /\ [][NextMem]_vars

\* ------------------------------------ a writer that may accept no entry
\* The Append of iteration n accepts nothing; ub is what the read before the
\* start of the caller's vector (std::prev(begin)) yields when it comes to it.
ZeroFaults(len) ==
  {NoFault} \cup
  {[kind |-> "Zero", n |-> n, ub |-> u] : n \in 1..len, u \in 0..MaxIndex}

ZeroWrite ==
  \E entries \in BatchesOver({1}, {1}) :
    \E fault \in ZeroFaults(Len(entries)) : WriteCall(entries, None, fault)

NextZero ==
  \/ CallRecover
  \/ ZeroWrite
  \/ CallSync
  \/ CallClose
  \/ CallGC
  \/ Destroy

SpecZero == Init /\ [][NextZero]_vars

\* ------------------------------ a directory with a segmentId used twice
\* Two files d holds whose names parse to the same segmentId.
DuplicateSegId(d) ==
  \E f, g \in {h \in DOMAIN d : isWal(h)} :
    f # g /\ parseWalName(f).segId = parseWalName(g).segId

\* Directories found at start-up with segment 1 there twice, as 1-1.wal
\* holding entry 1 and as 1-2.wal holding entry 2.
DupDirs ==
  {(SegmentFileName(1, 1) :> <<EntryRec(Entry(1, t, 1))>>) @@
   (SegmentFileName(1, 2) :> <<EntryRec(Entry(2, t, 1))>>) : t \in Terms}

InitDup ==
  /\ alive = FALSE
  /\ files_ = <<>>
  /\ current_ = None
  /\ lastIndex_ = 0
  /\ empty_ = FALSE
  /\ dir \in DupDirs
  /\ memstore = None
  /\ ret = [op |-> "none", status |-> "OK"]
  /\ call = NoCall
  /\ written = <<>>
  /\ rpc = NoRpc

SpecDup == InitDup /\ [][Next]_vars

\* ---------------------------------------------------------- the RPC clients
\* What one Step call owns, as the number of times each object has been
\* released (deleted or destroyed), and how often each callback was invoked.
\*   cntl     : the RpcController
\*   request  : the Request;  msg : the Message it took over
\*   response : the Response
StepCall(client) ==
  [client |-> client, done |-> FALSE, failed |-> FALSE,
   cntl |-> 0, request |-> 0, msg |-> 0, response |-> 0,
   onSuccess |-> 0, onFail |-> 0]

\* SyncRaftClient::Step(msg): request and response are locals, destroyed on
\* either return (the request with the message it owns); cntl is deleted on
\* the path past the else branch only.
SyncRaftClientStep(failed) ==
  [StepCall("sync") EXCEPT
     !.done = TRUE, !.failed = failed,
     !.request = 1, !.msg = 1, !.response = 1,
     !.cntl = IF failed THEN 0 ELSE 1]

\* AsyncRaftClient::Step(msg): allocates cntl, request (taking msg) and
\* response and hands them to the closure; nothing is released yet.
AsyncRaftClientStep == StepCall("async")

\* AsyncRaftClient::doneCallBack(cntl, request, response) for the call c.
doneCallBack(c, failed, onSuccess, onFail) ==
  [c EXCEPT
     !.done = TRUE, !.failed = failed,
     !.onFail = IF failed /\ onFail THEN @ + 1 ELSE @,
     !.onSuccess = IF ~failed /\ onSuccess THEN @ + 1 ELSE @,
     !.response = IF failed THEN @ ELSE @ + 1,
     !.cntl = @ + 1,
     !.request = @ + 1, !.msg = @ + 1]

SyncStep ==
  /\ Len(rpc.calls) < MaxRpcCalls
  /\ \E failed \in BOOLEAN :
       rpc' = [rpc EXCEPT !.calls = Append(@, SyncRaftClientStep(failed))]
  /\ UNCHANGED walVars

AsyncStep ==
  /\ Len(rpc.calls) < MaxRpcCalls
  /\ rpc' = [rpc EXCEPT !.calls = Append(@, AsyncRaftClientStep)]
  /\ UNCHANGED walVars

\* The RPC library runs the closure of a pending call, once.
DoneCallBack ==
  /\ \E i \in 1..Len(rpc.calls), failed \in BOOLEAN :
       /\ rpc.calls[i].client = "async"
       /\ ~rpc.calls[i].done
       /\ rpc' = [rpc EXCEPT !.calls[i] =
                    doneCallBack(@, failed, rpc.onSuccess, rpc.onFail)]
  /\ UNCHANGED walVars

\* AsyncRaftClient::RegisterOnSuccess(onSuccess), with a function or an
\* empty std::function.
RegisterOnSuccess ==
  /\ \E f \in BOOLEAN : rpc' = [rpc EXCEPT !.onSuccess = f]
  /\ UNCHANGED walVars

\* AsyncRaftClient::RegisterOnFail(onFail)
RegisterOnFail ==
  /\ \E f \in BOOLEAN : rpc' = [rpc EXCEPT !.onFail = f]
  /\ UNCHANGED walVars

NextRpc ==
  \/ SyncStep
  \/ AsyncStep
  \/ DoneCallBack
  \/ RegisterOnSuccess
  \/ RegisterOnFail

SpecRpc == Init /\ [][NextRpc]_vars

\* ------------------------------------------------------------- the claims
\* The indices of the entries decoded from the segment files of d.
DecodedIndices(d) ==
  UNION {{d[f][k].entry.index : k \in 1..Len(d[f])} : f \in DOMAIN d}

RecoveredSegments == ret.op = "Recover" /\ ret.status = "OK" /\ files_ # <<>>

\* C1: after Recover over a log directory holding at least one segment, the
\* manager's lastIndex equals the maximum entry index decoded from the
\* segments (N after entries 1..N were written and the manager closed).
C1_RecoverRestoresLastIndex ==
  RecoveredSegments => lastIndex_ = SetMax(DecodedIndices(dir))

WroteBatch == ret.op = "Write" /\ ret.status = "OK" /\ call.entries # <<>>

\* C2: after every successful Write of a non-empty batch, lastIndex equals
\* the index of the last entry of that batch, rollover or not.
C2_LastIndexAfterWrite ==
  WroteBatch => lastIndex_ = Last(call.entries).index

\* C3: every segment's startIndex, as carried by its file name, by its
\* SegmentMetaData in files_ and by the open writer, equals the index of the
\* first entry appended to the segment. Stated for logs whose first entry has
\* index 1, where the start of the first segment is not in question.
C3_StartIndexIsFirstEntry ==
  (written # <<>> /\ written[1].index = 1) =>
    /\ \A f \in DOMAIN dir :
         dir[f] # <<>> => parseWalName(f).segStart = dir[f][1].entry.index
    /\ \A i \in 1..Len(files_) :
         dir[files_[i].fileName] # <<>> =>
           files_[i].startIndex = dir[files_[i].fileName][1].entry.index
    /\ current_ # None /\ dir[current_[1].fileName] # <<>> =>
         current_[1].startIndex = dir[current_[1].fileName][1].entry.index

\* C4: Recover on a directory without segment files returns OK with a
\* manager whose empty flag is true, whose lastIndex is 0, whose files list is
\* empty and which has no writer, and leaves the cache pointer untouched.
C4_EmptyDirRecovery ==
  (ret.op = "Recover" /\ DOMAIN dir = {}) =>
    /\ ret.status = "OK"
    /\ empty_ = TRUE
    /\ lastIndex_ = 0
    /\ files_ = <<>>
    /\ current_ = None
    /\ memstore = None

\* The first non-empty Write on a manager recovered from a directory without
\* segment files has just returned.
FirstWrite == WroteBatch /\ written = call.entries

\* C5: the first non-empty Write on a manager recovered from a directory
\* without segment files clears empty and creates the first segment with
\* startIndex = entries[0].index, whatever that index is.
C5_FirstSegmentStartsAtFirstEntry ==
  FirstWrite =>
    /\ empty_ = FALSE
    /\ SegmentFileName(call.appends[1].segId, call.entries[1].index)
         \in DOMAIN dir

NonDecreasingTerms(es) ==
  \A i \in 1..(Len(es) - 1) : es[i].term <= es[i + 1].term

\* Entries 1..N with non-decreasing terms were written, the manager was
\* closed, and Recover has just run over the directory.
RecoveredFromOne ==
  /\ ret.op = "Recover"
  /\ written # <<>>
  /\ written[1].index = 1
  /\ NonDecreasingTerms(written)

\* C6: after entries 1..N with non-decreasing terms were written (in any
\* batching, over any rollovers) and the manager closed, Recover succeeds and
\* the recovered cache is exactly those N entries in index order, with the
\* same index, term and payload.
C6_RecoveredCacheIsWhatWasWritten ==
  RecoveredFromOne => (ret.status = "OK" /\ memstore = Some(written))

C6_Witness ==
  /\ RecoveredFromOne
  /\ Len(written) >= 3
  /\ Len(files_) >= 2
  /\ memstore = Some(written)

IsSuffix(t, s) ==
  Len(t) <= Len(s) /\ SubSeq(s, Len(s) - Len(t) + 1, Len(s)) = t

\* C7: a Write whose writers accepted the batch in k+1 pieces leaves pieces
\* that are non-empty and, concatenated in call order, are the batch; the k
\* finalized writers are appended to files_ in creation order, each file
\* ending with its piece; the writer of the last piece is open and not yet
\* listed in files_.
C7_RolloverPartitionsBatch ==
  WroteBatch =>
    LET a == call.appends
        k == Len(a) - 1
        nb == Len(call.before)
    IN  /\ k >= 0
        /\ \A i \in 1..Len(a) : a[i].entries # <<>>
        /\ FlattenAppends(a) = call.entries
        /\ Len(files_) = nb + k
        /\ SubSeq(files_, 1, nb) = call.before
        /\ \A i \in 1..k :
             /\ files_[nb + i].segId = a[i].segId
             /\ a[i].segId < a[i + 1].segId
             /\ IsSuffix([j \in 1..Len(a[i].entries) |-> EntryRec(a[i].entries[j])],
                         dir[files_[nb + i].fileName])
        /\ current_ # None
        /\ current_[1].segId = a[k + 1].segId
        /\ \A i \in 1..Len(files_) : files_[i].segId # current_[1].segId
        /\ IsSuffix([j \in 1..Len(a[k + 1].entries) |->
                       EntryRec(a[k + 1].entries[j])],
                    dir[current_[1].fileName])

C7_Witness == WroteBatch /\ Len(call.appends) = 3

\* C8: in a Write that carries a hard state, the first Append call receives
\* it and every Append issued after a rollover receives none.
C8_HardStateOnlyOnFirstAppend ==
  (WroteBatch /\ call.hs # None) =>
    /\ call.appends[1].hs = call.hs
    /\ \A i \in 2..Len(call.appends) : call.appends[i].hs = None

C8_Witness ==
  /\ WroteBatch
  /\ call.hs # None
  /\ Len(call.appends) >= 2
  /\ call.appends[2].hs = None

\* AppendToMemStore has just been called with entry MergedEntry on the
\* cache call.before.
Merged == ret.op = "AppendToMemStore"
MergedEntry == call.entries[1]

\* C9: AppendToMemStore on a non-empty cache with an entry whose term is
\* below the term of the cache's last entry returns an error and leaves the
\* cache as it was, whatever the entry's index.
C9_TermRegressionRejected ==
  (/\ Merged
   /\ call.before # <<>>
   /\ MergedEntry.term < Last(call.before).term) =>
     (ret.status = "YARaftError" /\ memstore = Some(call.before))

\* The rejected entry sits at the index of the first of several cached
\* entries: a merge would have cut the whole cache.
C9_Witness ==
  /\ Merged
  /\ Len(call.before) >= 2
  /\ MergedEntry.term < Last(call.before).term
  /\ MergedEntry.index = call.before[1].index
  /\ ret.status = "YARaftError"
  /\ memstore = Some(call.before)

SortedByIndex(vec) ==
  \A i \in 1..(Len(vec) - 1) : vec[i].index < vec[i + 1].index

\* The length of the longest prefix of vec whose entries all have an index
\* below idx.
PrefixBelow(vec, idx) ==
  Cardinality({i \in 1..Len(vec) : \A j \in 1..i : vec[j].index < idx})

\* C10: a successful AppendToMemStore(e) on a cache sorted by index leaves
\* the longest prefix of the old cache with indices below e.index, followed
\* by e: every old entry with index >= e.index is gone, none with a lower
\* index is.
C10_ConflictTruncate ==
  (Merged /\ ret.status = "OK" /\ SortedByIndex(call.before)) =>
    LET old == call.before
        e == MergedEntry
        k == PrefixBelow(old, e.index)
    IN  /\ memstore = Some(SubSeq(old, 1, k) \o <<e>>)
        /\ \A i \in 1..Len(old) : (old[i].index < e.index) <=> (i <= k)

\* The cache held three entries and e came at the index of the second.
C10_Witness ==
  /\ Merged
  /\ ret.status = "OK"
  /\ Len(call.before) = 3
  /\ MergedEntry.index = call.before[2].index
  /\ memstore = Some(<<call.before[1], MergedEntry>>)

\* The segment file of d with the highest segmentId.
NewestSegment(d) ==
  CHOOSE f \in DOMAIN d :
    \A g \in DOMAIN d : parseWalName(g).segId <= parseWalName(f).segId

\* The one truncation Recover may pass over: the last record of the newest
\* segment.
TrailingTruncationOnly(d) ==
  \A p \in PartialAt(d) : p[1] = NewestSegment(d) /\ p[2] = Len(d[p[1]])

\* C11: a Recover over a directory holding a truncated record succeeds, with
\* every complete entry in the cache, when that record is the last one of the
\* segment with the highest segmentId, and returns CorruptSegment when the
\* truncated record is anywhere else.
C11_CrashToleranceNewestOnly ==
  (ret.op = "Recover" /\ PartialAt(dir) # {}) =>
     IF TrailingTruncationOnly(dir)
     THEN ret.status = "OK" /\ memstore = Some(written)
     ELSE ret.status = "CorruptSegment"

\* C12: when the writer's Finish fails while a segment is finalized, from
\* Close or from a rollover inside Write, the operation returns an error
\* status to its caller and the process is not aborted.
C12_FinishFailureIsReturned ==
  (ret.op \in {"Close", "Write"} /\ call.failed = "Finish") =>
     (alive /\ ret.status = "IOError")

\* The segments listed in fs are all different files.
ListedOnce(fs) ==
  \A i, j \in DOMAIN fs : i # j => fs[i].fileName # fs[j].fileName

\* C13: Close is idempotent. A Close that finds a writer open finalizes it:
\* exactly its SegmentMetaData is appended to files and no writer is left
\* open; a Close that finds none returns OK and changes nothing; the
\* destructor's Close after an explicit Close lists nothing more; no segment
\* is ever listed twice.
C13_CloseIdempotent ==
  [][/\ ret'.op = "Close" =>
          /\ ret'.status = "OK"
          /\ current_' = None
          /\ ListedOnce(files_')
          /\ UNCHANGED <<lastIndex_, empty_, dir>>
          /\ IF current_ # None
             THEN files_' = Append(files_, LogWriterFinish(current_[1]))
             ELSE files_' = files_
     /\ (ret'.op = "~LogManager" /\ current_ = None) =>
          (call'.before = files_ /\ ListedOnce(call'.before))]_vars

\* A second Close in a row, on a manager that lists a segment.
C13_Witness ==
  /\ ret.op = "Close"
  /\ ret.status = "OK"
  /\ call.before = files_
  /\ files_ # <<>>
  /\ current_ = None

\* C14: in every reachable state files is sorted strictly ascending by
\* segmentId: Recover lists the segments in ascending order and every segment
\* finalized later has a segmentId above all those already listed.
C14_FilesAscendingBySegId ==
  \A i \in 1..(Len(files_) - 1) : files_[i].segId < files_[i + 1].segId

\* A Write that finalized a segment behind segments already listed.
C14_Witness ==
  /\ ret.op = "Write"
  /\ call.before # <<>>
  /\ Len(files_) > Len(call.before)
  /\ SubSeq(files_, 1, Len(call.before)) = call.before

\* C15: Sync with no writer open, GC with any hint and Write with an empty
\* batch return OK and leave files, lastIndex, the empty flag, the writer and
\* the directory as they were; files never shrinks while the manager lives.
C15_NoOpsChangeNothing ==
  [][/\ (\/ ret'.op = "Sync" /\ current_ = None
         \/ ret'.op = "GC"
         \/ ret'.op = "Write" /\ call'.entries = <<>>) =>
           (ret'.status = "OK" /\ UNCHANGED <<mgrVars, dir, alive>>)
     /\ (alive /\ alive') =>
           (/\ Len(files_) <= Len(files_')
            /\ SubSeq(files_', 1, Len(files_)) = files_)]_vars

\* A GC on a manager that lists a segment and has a writer open.
C15_Witness ==
  /\ ret.op = "GC"
  /\ files_ # <<>>
  /\ current_ # None

\* C16: when an Append of the writer returns having consumed none of the
\* remaining entries, Write stops with a fatal invariant violation: it does
\* not return a status, and it leaves no segment file without an entry.
C16_ZeroConsumedIsFatal ==
  (ret.op = "Write" /\ call.failed = "Zero") =>
     (ret.status = "FATAL" /\ ~alive)

\* C17: over a directory holding two segment files whose names parse to the
\* same segmentId, Recover fails with CorruptSegment.
C17_DuplicateSegIdRejected ==
  (ret.op = "Recover" /\ DuplicateSegId(dir)) => ret.status = "CorruptSegment"

\* C18: after any sequence of AppendToMemStore calls on a cache that started
\* empty, the cached entries have strictly increasing indices and
\* non-decreasing terms; the last cached entry is the entry of the most
\* recent successful call (a failed call leaves the cache as it was); an
\* entry more than one index above the last cached one is appended.
C18_CacheInvariants ==
  memstore # None =>
    LET vec == memstore[1]
    IN  /\ SortedByIndex(vec)
        /\ NonDecreasingTerms(vec)
        /\ (Merged /\ ret.status = "OK") => Last(vec) = MergedEntry
        /\ (Merged /\ ret.status # "OK") => vec = call.before
        /\ (/\ Merged
            /\ call.before # <<>>
            /\ MergedEntry.term >= Last(call.before).term
            /\ MergedEntry.index > Last(call.before).index + 1) =>
              (ret.status = "OK" /\ vec = Append(call.before, MergedEntry))

\* An entry two indices above the last cached one has been appended.
C18_Witness ==
  /\ Merged
  /\ ret.status = "OK"
  /\ call.before # <<>>
  /\ MergedEntry.index = Last(call.before).index + 2
  /\ memstore = Some(Append(call.before, MergedEntry))

\* The file names of the segments listed in fs.
FileNames(fs) == {fs[i].fileName : i \in 1..Len(fs)}

\* C19: a Write in which New or Append fails in iteration j of the loop
\* returns that error at once and rolls nothing back: the j-1 segments the
\* call finalized before are listed in files behind those listed before,
\* no writer or file is created after the failure, lastIndex is the index of
\* the last entry of the last segment the call finalized (what it was when
\* the call finalized none), and the empty flag stays cleared.
C19_FailedWriteNotRolledBack ==
  [][(ret'.op = "Write" /\ call'.failed \in {"New", "Append"}) =>
       LET done == call'.appends
           j == Len(done) + 1
       IN  /\ ret'.status = "IOError"
           /\ alive'
           /\ Len(files_') = Len(files_) + (j - 1)
           /\ SubSeq(files_', 1, Len(files_)) = files_
           /\ \A k \in 1..(j - 1) :
                 files_'[Len(files_) + k].segId = done[k].segId
           /\ (call'.failed = "New") => current_' = None
           /\ (call'.failed = "Append") =>
                 (current_' # None /\ dir'[current_'[1].fileName] =
                    IF j = 1 /\ current_ # None
                    THEN dir[current_[1].fileName] ELSE <<>>)
           /\ DOMAIN dir' = DOMAIN dir \cup FileNames(files_') \cup
                 (IF current_' = None THEN {} ELSE {current_'[1].fileName})
           /\ lastIndex_' = IF j = 1 THEN lastIndex_
                            ELSE Last(FlattenAppends(done)).index
           /\ empty_' = FALSE]_vars

\* The Append of the second iteration failed: one segment of the call is
\* finalized and listed, and lastIndex is at its last entry.
C19_Witness ==
  /\ ret.op = "Write"
  /\ ret.status = "IOError"
  /\ call.failed = "Append"
  /\ Len(call.appends) = 1
  /\ Len(files_) = Len(call.before) + 1
  /\ lastIndex_ = Last(call.appends[1].entries).index
  /\ Len(call.entries) > Len(call.appends[1].entries)

\* C20: once a Step call has completed (SyncRaftClient::Step returned, or
\* doneCallBack returned), its controller, its request with the message, and
\* for the async client its response have each been released exactly once,
\* whether the request failed or not, and at most one of onSuccess/onFail
\* has been invoked, at most once.
C20_StepReleasesEverythingOnce ==
  \A i \in 1..Len(rpc.calls) :
    LET c == rpc.calls[i]
    IN  c.done =>
          /\ c.cntl = 1
          /\ c.request = 1
          /\ c.msg = 1
          /\ (c.client = "async") => c.response = 1
          /\ c.onSuccess + c.onFail <= 1

=============================================================================
